---- MODULE Spec2Model ----
(***************************************************************************)
(* A model of chatbot.py: the retrying request layer                       *)
(* (exponential_backoff_fetch, get_gemini_response, classify_topic) and    *)
(* the analytics log (log_analytics, get_analytics_dashboard_data).        *)
(*                                                                         *)
(* Python values are tagged records.  A Python str is a sequence of atoms  *)
(* (each atom a run of characters, written as a TLA+ string), so that      *)
(* strip(), string formatting, JSON escaping and JSON parsing are computed *)
(* on the text and not assumed.  A dict is a function from str keys.       *)
(***************************************************************************)
EXTENDS Integers, Sequences, FiniteSets, TLC

\* ------------------------------------------------------------------ bounds

\* Largest value of the retries parameter tried on a direct call.
MaxRetries == 5
\* Largest initial delay tried on a direct call.
MaxDelay == 2

\* Defaults of exponential_backoff_fetch(url, payload, retries=5, delay=1).
DefaultRetries == 5
DefaultDelay == 1

\* ------------------------------------------------------------ Python values

PyNone == [ty |-> "none"]
PyStr(s) == [ty |-> "str", s |-> s]
PyNum(n) == [ty |-> "num", n |-> n]
PyList(l) == [ty |-> "list", l |-> l]
PyDict(d) == [ty |-> "dict", d |-> d]

\* A str of one atom, and the empty dict.
Lit(a) == PyStr(<<a>>)
EmptyMap == <<>>

\* bool(v) as Python's `and` / `if` see it.
Truthy(v) ==
  CASE v.ty = "none" -> FALSE
    [] v.ty = "str" -> v.s # <<>>
    [] v.ty = "num" -> v.n # 0
    [] v.ty = "list" -> v.l # <<>>
    [] v.ty = "dict" -> DOMAIN v.d # {}
    [] OTHER -> TRUE

\* An exception object: its class and str(e).
Exc(cls, msg) == [cls |-> cls, msg |-> msg]
NoExc == Exc("", <<>>)

\* The outcome of evaluating an expression: a value, or a raised exception.
Val(v) == [ok |-> TRUE, v |-> v, exc |-> NoExc]
Raised(e) == [ok |-> FALSE, v |-> PyNone, exc |-> e]

\* d.get(key): None when the key is absent; AttributeError when v is no dict.
DictGet(v, key) ==
  IF v.ty # "dict"
  THEN Raised(Exc("AttributeError", <<"object has no attribute 'get'">>))
  ELSE IF key \in DOMAIN v.d THEN Val(v.d[key]) ELSE Val(PyNone)

\* v[key] for a str key: KeyError on a dict without it, TypeError otherwise.
SubKey(r, key) ==
  IF ~r.ok THEN r
  ELSE IF r.v.ty = "dict"
       THEN IF key \in DOMAIN r.v.d
            THEN Val(r.v.d[key])
            ELSE Raised(Exc("KeyError", <<"'">> \o key \o <<"'">>))
       ELSE Raised(Exc("TypeError", <<"bad subscript">>))

\* v[0]: IndexError on an empty list or str, KeyError on a dict, TypeError
\* on None or a number.
SubZero(r) ==
  IF ~r.ok THEN r
  ELSE CASE r.v.ty = "list" ->
              IF r.v.l # <<>> THEN Val(r.v.l[1])
              ELSE Raised(Exc("IndexError", <<"list index out of range">>))
         [] r.v.ty = "str" ->
              IF r.v.s # <<>> THEN Val(PyStr(<<r.v.s[1]>>))
              ELSE Raised(Exc("IndexError", <<"string index out of range">>))
         [] r.v.ty = "dict" -> Raised(Exc("KeyError", <<"0">>))
         [] OTHER -> Raised(Exc("TypeError", <<"not subscriptable">>))

\* Whitespace atoms, and str.strip().
IsSpace(a) == a \in {" ", "\n", "\t"}

RECURSIVE LStrip(_)
LStrip(s) == IF s # <<>> /\ IsSpace(Head(s)) THEN LStrip(Tail(s)) ELSE s

RECURSIVE RStrip(_)
RStrip(s) ==
  IF s # <<>> /\ IsSpace(s[Len(s)]) THEN RStrip(SubSeq(s, 1, Len(s) - 1)) ELSE s

Strip(s) == RStrip(LStrip(s))

\* v.strip(): AttributeError unless v is a str.
StripValue(r) ==
  IF ~r.ok THEN r
  ELSE IF r.v.ty = "str" THEN Val(PyStr(Strip(r.v.s)))
       ELSE Raised(Exc("AttributeError", <<"object has no attribute 'strip'">>))

\* response_data['candidates'][0]['content']['parts'][0]['text']
CandidateText(data) ==
  SubKey(SubZero(SubKey(SubKey(SubZero(SubKey(Val(data), <<"candidates">>)),
                               <<"content">>), <<"parts">>)), <<"text">>)

\* response_data and response_data.get('candidates')
HasCandidates(data) ==
  IF ~Truthy(data) THEN Val(data)
  ELSE DictGet(data, <<"candidates">>)

\* ------------------------------------------------- the request layer

\* Classes caught by `except requests.exceptions.RequestException`.
RequestExceptions == {"ConnectionError", "HTTPError"}

\* What one requests.post + raise_for_status can raise.
TransportError == Exc("ConnectionError", <<"connection refused">>)
HTTPError == Exc("HTTPError", <<"500 Server Error">>)
AttemptFailure(kind) == IF kind = "transport" THEN TransportError ELSE HTTPError
FailureKinds == {"transport", "http"}

\* `if i < retries - 1` : sleep and retry, else re-raise.
ShouldRetryMut(i, n) == i < n
ShouldRetry(i, n) == i < n - 1

\* `delay *= 2`
NextDelayMut(d) == d
NextDelay(d) == d * 2

\* The fixed strings of the two callers.
FallbackText == <<"Sorry, I could not get a valid response from the API.">>
InternalErrorPrefix == <<"An internal error occurred: ">>
UnknownTopic == <<"Unknown">>

\* `except Exception as e` of get_gemini_response and of classify_topic.
ChatCatchesMut(e) == e.cls \in RequestExceptions
ChatCatches(e) == TRUE

ClassifyCatchesMut(e) == e.cls \in RequestExceptions
ClassifyCatches(e) == TRUE

\* get_gemini_response, given how exponential_backoff_fetch ended.
get_gemini_response(fetched) ==
  LET cond == IF fetched.ok THEN HasCandidates(fetched.v) ELSE fetched
      text == CandidateText(fetched.v)
      body == IF ~cond.ok THEN cond
              ELSE IF Truthy(cond.v)
                   THEN text
                   ELSE Val(PyStr(FallbackText))
  IN IF body.ok THEN body
     ELSE IF ChatCatches(body.exc)
          THEN Val(PyStr(InternalErrorPrefix \o body.exc.msg))
          ELSE body

\* classify_topic, given how exponential_backoff_fetch ended.
classify_topic(fetched) ==
  LET cond == IF fetched.ok THEN HasCandidates(fetched.v) ELSE fetched
      text == StripValue(CandidateText(fetched.v))
      body == IF ~cond.ok THEN cond
              ELSE IF Truthy(cond.v)
                   THEN text
                   ELSE Val(PyStr(UnknownTopic))
  IN IF body.ok THEN body
     ELSE IF ClassifyCatches(body.exc)
          THEN Val(PyStr(UnknownTopic))
          ELSE body

\* What the caller of exponential_backoff_fetch makes of its end.  A direct
\* call has no caller code: the end of the fetch is the end of the call.
CallerResult(c, fetched) ==
  CASE c = "chat" -> get_gemini_response(fetched)
    [] c = "classify" -> classify_topic(fetched)
    [] OTHER -> fetched

\* Response bodies (response.json()) a 2xx reply may carry.
Envelope(text) ==
  PyDict(<<"candidates">> :> PyList(<<
    PyDict(<<"content">> :> PyDict(<<"parts">> :> PyList(<<
      PyDict(<<"text">> :> text) >>))) >>))

Texts == { <<"Technical Support">>, <<" ", "Creative Writing", "\n">>,
           <<"Unknown">>, <<>> }

WellFormedBodies == { Envelope(PyStr(t)) : t \in Texts }

MalformedBodies ==
  { PyDict(EmptyMap),
    PyDict(<<"promptFeedback">> :> Lit("blocked")),
    PyDict(<<"candidates">> :> PyList(<<>>)),
    PyDict(<<"candidates">> :> PyList(<< PyDict(<<"finishReason">> :> Lit("SAFETY")) >>)),
    PyDict(<<"candidates">> :> PyList(<< PyDict(<<"content">> :>
        PyDict(<<"role">> :> Lit("model"))) >>)),
    PyDict(<<"candidates">> :> PyList(<< PyDict(<<"content">> :>
        PyDict(<<"parts">> :> PyList(<<>>))) >>)),
    PyDict(<<"candidates">> :> PyList(<< PyDict(<<"content">> :>
        PyDict(<<"parts">> :> PyList(<< PyDict(<<"inlineData">> :> Lit("x")) >>))) >>)) }

Bodies == WellFormedBodies \cup MalformedBodies

\* The request layer's state: who called, where the loop stands, what has
\* happened (attempts and sleeps, in order) and how the fetch and the call ended.
VARIABLES caller, pc, retries, delay0, delay, i, events, fetched, result

\* The analytics log's state: the path's kind and the file's text, the summary
\* of the current script run, the last log_analytics call, and the appends made.
VARIABLES fstate, content, summary, lastLog, appends

\* The page of the running Streamlit session, the processes that append to
\* one log, and the rest of a line whose writer has flushed only a part.
VARIABLES ui, conc, pending

fetchVars == <<caller, pc, retries, delay0, delay, i, events, fetched, result>>

logVars == <<fstate, content, summary, lastLog, appends>>

otherVars == <<ui, conc, pending>>

vars == <<caller, pc, retries, delay0, delay, i, events, fetched, result,
          fstate, content, summary, lastLog, appends, ui, conc, pending>>

NotEnded == [ok |-> FALSE, v |-> PyNone, exc |-> Exc("pending", <<>>)]

AttemptEvent(out, body) == [ev |-> "attempt", out |-> out, d |-> 0, body |-> body]
SleepEvent(d) == [ev |-> "sleep", out |-> "", d |-> d, body |-> PyNone]

\* No log_analytics call yet.
NoLog == [items |-> <<>>, res |-> NotEnded, wrote |-> FALSE, notified |-> FALSE,
          prior |-> <<>>, cleanEnd |-> FALSE, before |-> NotEnded,
          earlier |-> NotEnded, cleanSince |-> TRUE]

\* No script run yet, no appending process, no line half written.
NoTurn == [query |-> <<>>, response |-> <<>>, topic |-> <<>>]

UiIdle == [buttons |-> FALSE, turn |-> NoTurn, clicked |-> "none", logged |-> <<>>,
           messages |-> <<>>, turns |-> 0]

ConcIdle == [base |-> <<>>, pc |-> <<>>]

OthersIdle ==
  /\ ui = UiIdle
  /\ conc = ConcIdle
  /\ pending = <<>>

\* Nothing called yet.
FetchIdle ==
  /\ caller = "none"
  /\ pc = "idle"
  /\ retries = 0
  /\ delay0 = 0
  /\ delay = 0
  /\ i = 0
  /\ events = <<>>
  /\ fetched = NotEnded
  /\ result = NotEnded

\* The call: get_gemini_response and classify_topic use the defaults; a
\* direct call of exponential_backoff_fetch passes retries and delay.
Call(c, n, d) ==
  /\ pc = "idle"
  /\ caller' = c
  /\ retries' = n
  /\ delay0' = d
  /\ delay' = d
  /\ i' = 0
  /\ pc' = "loop"
  /\ UNCHANGED <<events, fetched, result>>
  /\ UNCHANGED <<logVars, otherVars>>

CallDirect == \E n \in 0..MaxRetries, d \in 1..MaxDelay : Call("fetch", n, d)
CallChat == Call("chat", DefaultRetries, DefaultDelay)
CallClassify == Call("classify", DefaultRetries, DefaultDelay)

\* Ends the call: the fetch ended with `end`, the caller's code runs on it.
EndCall(end) ==
  /\ fetched' = end
  /\ result' = CallerResult(caller, end)
  /\ pc' = "done"

\* One iteration whose post succeeds: `return response.json()`.
AttemptSucceeds ==
  /\ pc = "loop"
  /\ i < retries
  /\ \E body \in Bodies :
       /\ events' = Append(events, AttemptEvent("ok", body))
       /\ EndCall(Val(body))
  /\ UNCHANGED <<caller, retries, delay0, delay, i>>
  /\ UNCHANGED <<logVars, otherVars>>

\* One iteration whose post fails with attempts left: sleep, double, go on.
AttemptFailsRetry ==
  /\ pc = "loop"
  /\ i < retries
  /\ ShouldRetry(i, retries)
  /\ \E kind \in FailureKinds :
       events' = events \o <<AttemptEvent(kind, PyNone), SleepEvent(delay)>>
  /\ delay' = NextDelay(delay)
  /\ i' = i + 1
  /\ UNCHANGED <<caller, pc, retries, delay0, fetched, result>>
  /\ UNCHANGED <<logVars, otherVars>>

\* The last iteration's post fails: `raise`.
AttemptFailsLast ==
  /\ pc = "loop"
  /\ i < retries
  /\ ~ShouldRetry(i, retries)
  /\ \E kind \in FailureKinds :
       /\ events' = Append(events, AttemptEvent(kind, PyNone))
       /\ EndCall(Raised(AttemptFailure(kind)))
  /\ UNCHANGED <<caller, retries, delay0, delay, i>>
  /\ UNCHANGED <<logVars, otherVars>>

\* range(retries) is exhausted without a return or a raise: `return None`.
LoopFallsThrough ==
  /\ pc = "loop"
  /\ i >= retries
  /\ EndCall(Val(PyNone))
  /\ UNCHANGED <<caller, retries, delay0, delay, i, events>>
  /\ UNCHANGED <<logVars, otherVars>>

NextFetch ==
  \/ CallDirect
  \/ CallChat
  \/ CallClassify
  \/ AttemptSucceeds
  \/ AttemptFailsRetry
  \/ AttemptFailsLast
  \/ LoopFallsThrough

\* ------------------------------------------------------------- JSON text

\* No escaping: the character goes into the text as it is.
EscapeAtomMut(a) == <<a>>

\* json.dumps escapes of the characters a str may hold.
EscapeAtom(a) ==
  CASE a = "\"" -> <<"\\", "\"">>
    [] a = "\\" -> <<"\\", "\\">>
    [] a = "\n" -> <<"\\", "n">>
    [] a = "\t" -> <<"\\", "t">>
    [] OTHER -> <<a>>

RECURSIVE EscapeStr(_)
EscapeStr(s) == IF s = <<>> THEN <<>> ELSE EscapeAtom(Head(s)) \o EscapeStr(Tail(s))

DumpsStr(s) == <<"\"">> \o EscapeStr(s) \o <<"\"">>

\* json.dumps of a dict of str to str, given as its items in insertion
\* order: {"k": "v", "k2": "v2"} with the default separators.
RECURSIVE DumpsItems(_)
DumpsItems(items) ==
  IF items = <<>> THEN <<>>
  ELSE DumpsStr(Head(items).k) \o <<":", " ">> \o DumpsStr(Head(items).v)
       \o (IF Len(items) > 1 THEN <<",", " ">> ELSE <<>>)
       \o DumpsItems(Tail(items))

Dumps(items) == <<"{">> \o DumpsItems(items) \o <<"}">>

\* The json.loads scanner: a parsed value and the position after it.
POk(v, n) == [ok |-> TRUE, v |-> v, nxt |-> n]
PFail == [ok |-> FALSE, v |-> PyNone, nxt |-> 0]

RECURSIVE SkipWs(_, _)
SkipWs(s, p) == IF p <= Len(s) /\ IsSpace(s[p]) THEN SkipWs(s, p + 1) ELSE p

NumberAtoms == {"0", "7"}
NumberValue(a) == IF a = "0" THEN 0 ELSE 7

Unescapable == {"\"", "\\", "n", "t"}
Unescape(a) ==
  CASE a = "n" -> "\n"
    [] a = "t" -> "\t"
    [] OTHER -> a

\* The body of a string literal from position p, up to its closing quote.  A
\* raw control character inside a literal is an error (strict mode).
RECURSIVE ParseString(_, _, _)
ParseString(s, p, acc) ==
  IF p > Len(s) THEN PFail
  ELSE IF s[p] = "\"" THEN POk(PyStr(acc), p + 1)
  ELSE IF s[p] = "\\"
       THEN IF p + 1 <= Len(s) /\ s[p + 1] \in Unescapable
            THEN ParseString(s, p + 2, Append(acc, Unescape(s[p + 1])))
            ELSE PFail
  ELSE IF s[p] \in {"\n", "\t"} THEN PFail
  ELSE ParseString(s, p + 1, Append(acc, s[p]))

\* The one element of a singleton.  Only({ F(x) : x \in {e} }) is F(e) with e
\* computed once, however often F uses it.
Only(S) == CHOOSE x \in S : TRUE

RECURSIVE ParseValue(_, _)
RECURSIVE ParseMembers(_, _, _)
RECURSIVE ParseItems(_, _, _)

ParseValue(s, p) ==
  IF p > Len(s) THEN PFail
  ELSE CASE s[p] = "{" ->
              Only({ IF q <= Len(s) /\ s[q] = "}"
                     THEN POk(PyDict(EmptyMap), q + 1)
                     ELSE ParseMembers(s, q, EmptyMap) : q \in {SkipWs(s, p + 1)} })
         [] s[p] = "[" ->
              Only({ IF q <= Len(s) /\ s[q] = "]"
                     THEN POk(PyList(<<>>), q + 1)
                     ELSE ParseItems(s, q, <<>>) : q \in {SkipWs(s, p + 1)} })
         [] s[p] = "\"" -> ParseString(s, p + 1, <<>>)
         [] s[p] = "null" -> POk(PyNone, p + 1)
         [] s[p] \in NumberAtoms -> POk(PyNum(NumberValue(s[p])), p + 1)
         [] OTHER -> PFail

\* After a value that ends before position e: "}" or "]" (given as `close`)
\* ends the container, "," goes on at the next token.
AfterValue(s, e, close) ==
  IF e > Len(s) THEN "fail"
  ELSE IF s[e] = close THEN "end"
  ELSE IF s[e] = "," THEN "more"
  ELSE "fail"

\* "key": value pairs up to the closing brace; a repeated key keeps the last.
ParseMembers(s, p, acc) ==
  IF p > Len(s) \/ s[p] # "\"" THEN PFail
  ELSE Only({
    IF ~key.ok THEN PFail
    ELSE Only({
      IF c > Len(s) \/ s[c] # ":" THEN PFail
      ELSE Only({
        Only({
          IF ~val.ok THEN PFail
          ELSE Only({
            Only({
              CASE AfterValue(s, e, "}") = "end" -> POk(PyDict(acc2), e + 1)
                [] AfterValue(s, e, "}") = "more" ->
                     Only({ ParseMembers(s, q, acc2) : q \in {SkipWs(s, e + 1)} })
                [] OTHER -> PFail
              : acc2 \in {(key.v.s :> val.v) @@ acc} })
            : e \in {SkipWs(s, val.nxt)} })
          : val \in {ParseValue(s, v0)} })
        : v0 \in {SkipWs(s, c + 1)} })
      : c \in {SkipWs(s, key.nxt)} })
    : key \in {ParseString(s, p + 1, <<>>)} })

ParseItems(s, p, acc) ==
  Only({
    IF ~val.ok THEN PFail
    ELSE Only({
      Only({
        CASE AfterValue(s, e, "]") = "end" -> POk(PyList(acc2), e + 1)
          [] AfterValue(s, e, "]") = "more" ->
               Only({ ParseItems(s, q, acc2) : q \in {SkipWs(s, e + 1)} })
          [] OTHER -> PFail
        : acc2 \in {Append(acc, val.v)} })
      : e \in {SkipWs(s, val.nxt)} })
    : val \in {ParseValue(s, p)} })

\* json.loads(line): one value with optional whitespace around it, or
\* JSONDecodeError.
Loads(line) ==
  Only({
    IF r.ok /\ SkipWs(line, r.nxt) > Len(line)
    THEN Val(r.v)
    ELSE Raised(Exc("JSONDecodeError", <<"invalid JSON">>))
    : r \in {ParseValue(line, SkipWs(line, 1))} })

\* `for line in f`: the text cut after each newline; a last piece without a
\* newline is a line too.
LineEnds(text) == { p \in 1..Len(text) : text[p] = "\n" }

Lines(text) ==
  LET ends == LineEnds(text)
      full == Cardinality(ends)
      EndOf(k) == CHOOSE p \in ends : Cardinality({ q \in ends : q < p }) = k - 1
      StartOf(k) == IF k = 1 THEN 1 ELSE EndOf(k - 1) + 1
      rest == IF full = 0 THEN 1 ELSE EndOf(full) + 1
  IN [k \in 1..full |-> SubSeq(text, StartOf(k), EndOf(k))]
     \o (IF rest <= Len(text) THEN <<SubSeq(text, rest, Len(text))>> ELSE <<>>)

\* ---------------------------------------------------- the analytics log

\* Most lines a log holds before the program runs, and most appends made.
MaxInitLines == 1
MaxAppends == 2

\* open(ANALYTICS_FILE, mode) on a path that is a regular file ("file"),
\* absent ("missing"), unreadable and unwritable ("denied") or a directory
\* ("isdir").
OpenError(state) ==
  CASE state = "missing" -> Exc("FileNotFoundError", <<"No such file or directory">>)
    [] state = "denied" -> Exc("PermissionError", <<"Permission denied">>)
    [] OTHER -> Exc("IsADirectoryError", <<"Is a directory">>)

OpenRead(state) == IF state = "file" THEN Val(PyNone) ELSE Raised(OpenError(state))

\* Mode "a" creates an absent file.
OpenAppend(state) ==
  IF state \in {"file", "missing"} THEN Val(PyNone) ELSE Raised(OpenError(state))

\* OSError and its subclasses, which `except IOError` catches.
OSErrors == {"OSError", "FileNotFoundError", "PermissionError", "IsADirectoryError"}

\* `except IOError as e` of log_analytics.
LogCatchesMut(e) == FALSE
LogCatches(e) == e.cls \in OSErrors

\* `except FileNotFoundError` of get_analytics_dashboard_data.
ScanCatchesOpenMut(e) == FALSE
ScanCatchesOpen(e) == e.cls = "FileNotFoundError"

\* `except json.JSONDecodeError` around one line.
ScanCatchesLineMut(e) == FALSE
ScanCatchesLine(e) == e.cls = "JSONDecodeError"

\* f.write(text) on a file opened in append mode.
WriteAppendMut(old, text) == text
WriteAppend(old, text) == old \o text

\* The line without its newline.
LogLineMut(items) == Dumps(items)

\* json.dumps(data) + "\n"
LogLine(items) == Dumps(items) \o <<"\n">>

\* A dict key must be hashable: a list or a dict is not.
Hashable(v) == v.ty \notin {"list", "dict"}

\* A count that starts again at 1 for a topic seen before.
CountTopicMut(counts, topic) ==
  IF \E j \in 1..Len(counts) : counts[j].topic = topic
  THEN [j \in 1..Len(counts) |->
          IF counts[j].topic = topic
          THEN [counts[j] EXCEPT !.count = 1]
          ELSE counts[j]]
  ELSE Append(counts, [topic |-> topic, count |-> 1])

\* topic_counts[topic] = topic_counts.get(topic, 0) + 1 on a dict kept as
\* its items in insertion order.
CountTopic(counts, topic) ==
  IF \E j \in 1..Len(counts) : counts[j].topic = topic
  THEN [j \in 1..Len(counts) |->
          IF counts[j].topic = topic
          THEN [counts[j] EXCEPT !.count = @ + 1]
          ELSE counts[j]]
  ELSE Append(counts, [topic |-> topic, count |-> 1])

\* The counters before the first line.
ZeroCounters ==
  [total_queries |-> 0, positive_ratings |-> 0, negative_ratings |-> 0,
   topic_counts |-> <<>>]

\* A loop body that counts the ratings and the topic but not the query.
ScanParsedMut(c, data) ==
  LET rating == DictGet(data.v, <<"rating">>)
      topic == IF <<"topic">> \in DOMAIN data.v.d
               THEN data.v.d[<<"topic">>]
               ELSE PyStr(UnknownTopic)
      c2 == IF rating.v = Lit("positive") THEN [c EXCEPT !.positive_ratings = @ + 1]
            ELSE IF rating.v = Lit("negative") THEN [c EXCEPT !.negative_ratings = @ + 1]
            ELSE c
  IN IF ~data.ok THEN Raised(data.exc)
     ELSE IF ~rating.ok THEN Raised(rating.exc)
     ELSE IF ~Hashable(topic)
          THEN Raised(Exc("TypeError", <<"unhashable type">>))
     ELSE Val([c2 EXCEPT !.topic_counts = CountTopic(@, topic)])

\* The body of the inner try for one line, from counters c: the counters
\* after it, or the exception it raises.
ScanParsed(c, data) ==
  LET rating == DictGet(data.v, <<"rating">>)
      topic == IF <<"topic">> \in DOMAIN data.v.d
               THEN data.v.d[<<"topic">>]
               ELSE PyStr(UnknownTopic)
      c1 == [c EXCEPT !.total_queries = @ + 1]
      c2 == IF rating.v = Lit("positive") THEN [c1 EXCEPT !.positive_ratings = @ + 1]
            ELSE IF rating.v = Lit("negative") THEN [c1 EXCEPT !.negative_ratings = @ + 1]
            ELSE c1
  IN IF ~data.ok THEN Raised(data.exc)
     ELSE IF ~rating.ok THEN Raised(rating.exc)
     ELSE IF ~Hashable(topic)
          THEN Raised(Exc("TypeError", <<"unhashable type">>))
     ELSE Val([c2 EXCEPT !.topic_counts = CountTopic(@, topic)])

ScanLine(c, line) == Only({ ScanParsed(c, data) : data \in {Loads(line)} })

\* The loop over the lines from the k-th on: a line raising JSONDecodeError
\* is passed over, any other exception leaves the loop.
RECURSIVE ScanLines(_, _, _)
ScanLines(c, lines, k) ==
  IF k > Len(lines) THEN Val(c)
  ELSE Only({
    IF r.ok THEN ScanLines(r.v, lines, k + 1)
    ELSE IF ScanCatchesLine(r.exc) THEN ScanLines(c, lines, k + 1)
    ELSE r
    : r \in {ScanLine(c, lines[k])} })

\* sorted(items, key=count, reverse=True): stable, so equal counts keep their
\* insertion order.
RECURSIVE InsertByCount(_, _)
InsertByCount(sorted, item) ==
  IF sorted = <<>> THEN <<item>>
  ELSE IF Head(sorted).count >= item.count
       THEN <<Head(sorted)>> \o InsertByCount(Tail(sorted), item)
       ELSE <<item>> \o sorted

\* The items left in insertion order.
sorted_topicsMut(counts) == counts

RECURSIVE sorted_topics(_)
sorted_topics(counts) ==
  IF counts = <<>> THEN <<>>
  ELSE InsertByCount(sorted_topics(SubSeq(counts, 1, Len(counts) - 1)),
                     counts[Len(counts)])

\* The returned dict.
Summary(c) ==
  [totalQueries |-> c.total_queries, positiveRatings |-> c.positive_ratings,
   negativeRatings |-> c.negative_ratings, topics |-> sorted_topics(c.topic_counts)]

\* get_analytics_dashboard_data on a path in `state` holding `text`.
ScanOpened(opened, text) ==
  IF ~opened.ok
  THEN IF ScanCatchesOpen(opened.exc) THEN Val(Summary(ZeroCounters))
       ELSE opened
  ELSE Only({ IF scanned.ok THEN Val(Summary(scanned.v)) ELSE scanned
              : scanned \in { Only({ ScanLines(ZeroCounters, lines, 1)
                                     : lines \in {Lines(text)} }) } })

get_analytics_dashboard_data(state, text) == ScanOpened(OpenRead(state), text)

\* One item of the dict passed to log_analytics.
Item(key, value) == [k |-> <<key>>, v |-> value]

\* The dict the rating buttons pass: timestamp, query, response, topic, rating.
Interaction(query, response, topic, rating) ==
  << Item("timestamp", <<"2024-01-01 10:00:00">>), Item("query", query),
     Item("response", response), Item("topic", topic), Item("rating", rating) >>

\* Records logged in the model; one has a quote, a newline and a backslash in
\* its texts, one carries no rating.
LoggedRecords ==
  { Interaction(<<"hi">>, <<"hello">>, <<"A">>, <<"positive">>),
    Interaction(<<"say ", "\"", "hi", "\"", "\n", "now">>, <<"C:", "\\", "tmp">>,
                <<"B">>, <<"negative">>),
    << Item("query", <<"hi">>), Item("topic", <<"B">>) >> }

\* Lines a log may hold before the program runs: records, and text that is
\* no JSON, an unfinished object, JSON that is no object, and an object whose
\* topic is a list.
InitLineTexts ==
  { LogLine(<< Item("topic", <<"A">>), Item("rating", <<"positive">>) >>),
    << "{", "\"", "rating", "\"", ":", "\"", "negative", "\"", ",",
       "\"", "topic", "\"", ":", "\"", "B", "\"", "}", "\n" >>,
    LogLine(<< Item("query", <<"hi">>) >>),
    << "\n" >>,
    << "oops", "\n" >>,
    << "{", "\"", "topic", "\"", ":", " ", "\"", "A", "\"", "\n" >>,
    << "7", "\n" >>,
    << "\"", "s", "\"", "\n" >>,
    << "[", "7", "]", "\n" >>,
    << "null", "\n" >>,
    << "{", "\"", "topic", "\"", ":", " ", "[", "]", "}", "\n" >> }

\* A last line without its newline: an object another writer has not
\* finished, and a whole object whose newline has not been written.
PartialTails ==
  { <<>>,
    << "{", "\"", "topic", "\"", ":", " ", "\"", "A" >>,
    << "{", "\"", "topic", "\"", ":", " ", "\"", "A", "\"", "}" >> }

RECURSIVE Concat(_)
Concat(seqs) == IF seqs = <<>> THEN <<>> ELSE Head(seqs) \o Concat(Tail(seqs))

InitContents ==
  { Concat(ls) \o tail :
      ls \in UNION { [1..n -> InitLineTexts] : n \in 0..MaxInitLines },
      tail \in PartialTails }

\* The log before the program runs: any kind of path, any bounded text.
InitLog ==
  /\ FetchIdle
  /\ OthersIdle
  /\ \/ fstate \in {"missing", "denied", "isdir"} /\ content = <<>>
     \/ fstate = "file" /\ content \in InitContents
  /\ summary = NotEnded
  /\ lastLog = NoLog
  /\ appends = 0

\* The request layer before a call; the log is not touched.
InitFetch ==
  /\ FetchIdle
  /\ OthersIdle
  /\ fstate = "missing"
  /\ content = <<>>
  /\ summary = NotEnded
  /\ lastLog = NoLog
  /\ appends = 0

\* The text ends a line: it is empty or its last character is a newline.
EndsLine(text) == text = <<>> \/ text[Len(text)] = "\n"

\* What lastLog keeps of a log_analytics call besides its outcome: its
\* argument, the text the file held before it and whether that text ended a
\* line, the summary computed just before it, the latest summary computed
\* before it, and whether the text ended a line at every call made since
\* that summary.
CallNote(items) ==
  [items |-> items, prior |-> content,
   cleanEnd |-> EndsLine(content), before |-> summary,
   earlier |-> IF summary # NotEnded THEN summary ELSE lastLog.earlier,
   cleanSince |-> IF summary # NotEnded THEN EndsLine(content)
                  ELSE lastLog.cleanSince /\ EndsLine(content)]

\* The call's outcome: what it returned or raised, whether the whole line
\* was written, whether st.error was called.
CallEnd(note, res, wrote, notified) ==
  [items |-> note.items, res |-> res, wrote |-> wrote, notified |-> notified,
   prior |-> note.prior, cleanEnd |-> note.cleanEnd, before |-> note.before,
   earlier |-> note.earlier, cleanSince |-> note.cleanSince]

\* log_analytics(data): open in append mode, write one line; an OSError is
\* reported with st.error and not raised.  (`summary` is the summary of the
\* file as it is now, so the call leaves none.)
log_analytics(items) ==
  LET opened == OpenAppend(fstate) IN
    /\ appends < MaxAppends
    /\ appends' = appends + 1
    /\ IF opened.ok
       THEN /\ fstate' = "file"
            /\ content' = WriteAppend(content, LogLine(items))
            /\ lastLog' = CallEnd(CallNote(items), Val(PyNone), TRUE, FALSE)
       ELSE /\ UNCHANGED <<fstate, content>>
            /\ lastLog' = IF LogCatches(opened.exc)
                          THEN CallEnd(CallNote(items), Val(PyNone), FALSE, TRUE)
                          ELSE CallEnd(CallNote(items), opened, FALSE, FALSE)
    /\ summary' = NotEnded
    /\ UNCHANGED <<fetchVars, otherVars>>

Log == \E items \in LoggedRecords : log_analytics(items)

\* get_analytics_dashboard_data(): a full scan of the file as it is now.
GetDashboard ==
  /\ summary' = get_analytics_dashboard_data(fstate, content)
  /\ UNCHANGED <<fstate, content, lastLog, appends>>
  /\ UNCHANGED <<fetchVars, otherVars>>

NextLog ==
  \/ Log
  \/ GetDashboard

\* The request layer alone, and the analytics log alone.
SpecFetch == InitFetch /\ [][NextFetch]_vars

SpecLog == InitLog /\ [][NextLog]_vars

\* ------------------------------------------------- the Streamlit script

\* Most turns (chat submissions) of one session.
MaxTurns == 2

\* Streamlit runs the whole script again on every user event; the event is
\* what the widgets report in that run.
SubmitEvent(text) == [kind |-> "submit", text |-> text, key |-> ""]
ClickEvent(key) == [kind |-> "click", text |-> <<>>, key |-> key]

\* st.chat_input(...): the text submitted, in the run the submission starts;
\* None in every other run.
ChatInput(ev) == IF ev.kind = "submit" THEN PyStr(ev.text) ELSE PyNone

\* st.button(..., key=key): True in the run its click starts, False in
\* every other run.
Button(ev, key) == ev.kind = "click" /\ ev.key = key

\* The rating a button stands for.
RatingOf(key) == IF key = "helpful" THEN "positive" ELSE "negative"

\* What the user types, and how the two fetches of a turn may end.
Prompts == { <<"hi">>, <<"say ", "\"", "hi", "\"", "\n", "now">> }

UiFetchEnds ==
  { Val(Envelope(PyStr(<<"Technical Support">>))),
    Val(Envelope(PyStr(<<>>))),
    Val(PyDict(EmptyMap)),
    Raised(TransportError) }

\* log_analytics(data) inside a script run, on the file f: the file after
\* it, with the dict added to those the run has written.
AfterLog(f, items) ==
  IF OpenAppend(f.fstate).ok
  THEN [fstate |-> "file", content |-> WriteAppend(f.content, LogLine(items)),
        logged |-> Append(f.logged, items)]
  ELSE f

\* The body of `if prompt := st.chat_input(...)`: the two calls, the rating
\* buttons under `if bot_response:`, each with its log_analytics call, and
\* the two messages added to the history.
TurnBody(ev, query, bot_response, topic) ==
  LET shown == Truthy(bot_response)
      f0 == [fstate |-> fstate, content |-> content, logged |-> <<>>]
      f1 == IF shown /\ Button(ev, "helpful")
            THEN AfterLog(f0, Interaction(query, bot_response.s, topic.s, <<"positive">>))
            ELSE f0
      f2 == IF shown /\ Button(ev, "not-helpful")
            THEN AfterLog(f1, Interaction(query, bot_response.s, topic.s, <<"negative">>))
            ELSE f1
  IN /\ fstate' = f2.fstate
     /\ content' = f2.content
     /\ ui' = [buttons |-> shown,
               turn |-> [query |-> query, response |-> bot_response.s, topic |-> topic.s],
               clicked |-> "none",
               logged |-> f2.logged,
               messages |-> ui.messages \o << [role |-> "user", content |-> query],
                                              [role |-> "assistant", content |-> bot_response.s] >>,
               turns |-> ui.turns + 1]

\* One run of the script from the sidebar on (an API key is configured): the
\* dashboard, the history, then the turn if chat_input gave a prompt.  A run
\* without a prompt draws no buttons, so the page shows none after it; a run
\* the dashboard raises in stops there.  ui.clicked keeps the rating the user
\* clicked for the last turn, ui.logged the dicts written for that turn.
ScriptRun(ev) ==
  /\ summary' = get_analytics_dashboard_data(fstate, content)
  /\ IF summary'.ok /\ Truthy(ChatInput(ev))
     THEN \E got \in UiFetchEnds, cls \in UiFetchEnds :
            TurnBody(ev, ChatInput(ev).s, get_gemini_response(got).v, classify_topic(cls).v)
     ELSE /\ ui' = [ui EXCEPT !.buttons = FALSE,
                              !.clicked = IF ev.kind = "click" THEN RatingOf(ev.key) ELSE @]
          /\ UNCHANGED <<fstate, content>>
  /\ UNCHANGED <<lastLog, appends, conc, pending>>
  /\ UNCHANGED fetchVars

\* The user submits a prompt.
Submit ==
  /\ ui.turns < MaxTurns
  /\ \E text \in Prompts : ScriptRun(SubmitEvent(text))

\* The user clicks one of the two rating buttons the page shows.
Click ==
  /\ ui.buttons
  /\ \E key \in {"helpful", "not-helpful"} : ScriptRun(ClickEvent(key))

NextUI ==
  \/ Submit
  \/ Click

\* A session on a log that is absent, or present and empty.
InitUI ==
  /\ FetchIdle
  /\ OthersIdle
  /\ fstate \in {"missing", "file"}
  /\ content = <<>>
  /\ summary = NotEnded
  /\ lastLog = NoLog
  /\ appends = 0

SpecUI == InitUI /\ [][NextUI]_vars

\* ------------------------------------- several processes, one log file

\* Processes that each call log_analytics once.
MaxProcs == 3

Procs == 1..MaxProcs

\* The dict process p logs: its query is p letters long, so no two
\* processes log the same line.
ProcRecord(p) ==
  Interaction([k \in 1..p |-> "q"], <<"hello">>,
              IF p % 2 = 1 THEN <<"A">> ELSE <<"B">>,
              IF p % 2 = 1 THEN <<"positive">> ELSE <<"negative">>)

\* Process p enters log_analytics: open(ANALYTICS_FILE, "a"), which creates
\* an absent file; a failed open is caught and ends the call.
ProcOpen(p) ==
  /\ conc.pc[p] = "idle"
  /\ IF OpenAppend(fstate).ok
     THEN /\ fstate' = "file"
          /\ conc' = [conc EXCEPT !.pc[p] = "opened"]
     ELSE /\ fstate' = fstate
          /\ conc' = [conc EXCEPT !.pc[p] = "done"]
  /\ UNCHANGED <<content, summary, lastLog, appends, ui, pending>>
  /\ UNCHANGED fetchVars

\* Process p leaves the with block: the buffered line goes to the file in
\* one write, which append mode puts at the end the file has at that moment.
ProcWrite(p) ==
  /\ conc.pc[p] = "opened"
  /\ content' = WriteAppend(content, LogLine(ProcRecord(p)))
  /\ conc' = [conc EXCEPT !.pc[p] = "done"]
  /\ summary' = NotEnded
  /\ UNCHANGED <<fstate, lastLog, appends, ui, pending>>
  /\ UNCHANGED fetchVars

Open == \E p \in Procs : ProcOpen(p)

Write == \E p \in Procs : ProcWrite(p)

NextConc ==
  \/ Open
  \/ Write
  \/ GetDashboard

\* The log before the processes start: absent, empty, or holding one record
\* log_analytics wrote earlier.
InitConc ==
  /\ FetchIdle
  /\ \/ fstate = "missing" /\ content = <<>>
     \/ fstate = "file" /\ content \in {<<>>} \cup { LogLine(r) : r \in LoggedRecords }
  /\ summary = NotEnded
  /\ lastLog = NoLog
  /\ appends = 0
  /\ ui = UiIdle
  /\ conc = [base |-> content, pc |-> [p \in Procs |-> "idle"]]
  /\ pending = <<>>

SpecConc == InitConc /\ [][NextConc]_vars

\* ------------------------------------------ a scan during an append

\* Another process is inside log_analytics and its line reaches the file in
\* two parts: the first `cut` characters now, the rest later.  A scan between
\* the two finds the first part as the file's last line.  (The scan itself
\* reads the file in order while it can only grow, so what it reads is the
\* text the file held at its last read: one snapshot.)
PartialFlush(items, cut) ==
  /\ pending = <<>>
  /\ appends < MaxAppends
  /\ OpenAppend(fstate).ok
  /\ appends' = appends + 1
  /\ fstate' = "file"
  /\ content' = WriteAppend(content, SubSeq(LogLine(items), 1, cut))
  /\ pending' = SubSeq(LogLine(items), cut + 1, Len(LogLine(items)))
  /\ summary' = NotEnded
  /\ UNCHANGED <<lastLog, ui, conc>>
  /\ UNCHANGED fetchVars

BeginAppend ==
  \E items \in LoggedRecords :
    \E cut \in 1..(Len(LogLine(items)) - 1) : PartialFlush(items, cut)

\* The rest of the line reaches the file.
FinishAppend ==
  /\ pending # <<>>
  /\ content' = WriteAppend(content, pending)
  /\ pending' = <<>>
  /\ summary' = NotEnded
  /\ UNCHANGED <<fstate, lastLog, appends, ui, conc>>
  /\ UNCHANGED fetchVars

NextPartial ==
  \/ BeginAppend
  \/ FinishAppend
  \/ GetDashboard

\* The log before: absent, or holding whole lines log_analytics wrote.
InitPartial ==
  /\ FetchIdle
  /\ OthersIdle
  /\ \/ fstate = "missing" /\ content = <<>>
     \/ /\ fstate = "file"
        /\ content \in { Concat(ls) :
             ls \in UNION { [1..n -> { LogLine(r) : r \in LoggedRecords }] :
                            n \in 0..MaxInitLines } }
  /\ summary = NotEnded
  /\ lastLog = NoLog
  /\ appends = 0

SpecPartial == InitPartial /\ [][NextPartial]_vars

\* ------------------------------------------------- a write that fails

\* What f.write, or the flush when the with block closes the file, raises
\* when the device refuses the data.
WriteError == Exc("OSError", <<"No space left on device">>)

\* How much of the line had reached the file when the write failed: nothing,
\* half of it, all but the newline.
CutPoints(line) == {0, Len(line) \div 2, Len(line) - 1}

\* log_analytics(data) whose open succeeds and whose write fails after
\* `cut` characters of the line: the OSError is raised inside the try.
LogWriteFails(items, cut) ==
  /\ appends < MaxAppends
  /\ OpenAppend(fstate).ok
  /\ appends' = appends + 1
  /\ fstate' = "file"
  /\ content' = WriteAppend(content, SubSeq(LogLine(items), 1, cut))
  /\ lastLog' = IF LogCatches(WriteError)
                THEN CallEnd(CallNote(items), Val(PyNone), FALSE, TRUE)
                ELSE CallEnd(CallNote(items), Raised(WriteError), FALSE, FALSE)
  /\ summary' = NotEnded
  /\ UNCHANGED <<fetchVars, otherVars>>

FailedWrite ==
  \E items \in LoggedRecords :
    \E cut \in CutPoints(LogLine(items)) : LogWriteFails(items, cut)

NextIO ==
  \/ Log
  \/ FailedWrite
  \/ GetDashboard

\* Any kind of path; a file holds whole lines log_analytics wrote.
InitIO ==
  /\ FetchIdle
  /\ OthersIdle
  /\ \/ fstate \in {"missing", "denied", "isdir"} /\ content = <<>>
     \/ /\ fstate = "file"
        /\ content \in { Concat(ls) :
             ls \in UNION { [1..n -> { LogLine(r) : r \in LoggedRecords }] :
                            n \in 0..MaxInitLines } }
  /\ summary = NotEnded
  /\ lastLog = NoLog
  /\ appends = 0

SpecIO == InitIO /\ [][NextIO]_vars

\* ---------------------------------------------- claims: request layer

RECURSIVE Pow2(_)
Pow2(k) == IF k <= 0 THEN 1 ELSE 2 * Pow2(k - 1)

IsAttempt(e) == e.ev = "attempt"
IsSleep(e) == e.ev = "sleep"
Attempts == SelectSeq(events, IsAttempt)
Sleeps == SelectSeq(events, IsSleep)
SleepDelays == [k \in 1..Len(Sleeps) |-> Sleeps[k].d]

\* The k-th sleep lasts delay0 * 2^(k-1).
SleepsDouble == \A k \in 1..Len(Sleeps) : Sleeps[k].d = delay0 * Pow2(k - 1)

\* Attempts and sleeps alternate, beginning and ending with an attempt.
SleepsBetweenAttempts ==
  /\ Len(events) = 2 * Len(Attempts) - 1
  /\ \A j \in 1..Len(events) :
       events[j].ev = IF j % 2 = 1 THEN "attempt" ELSE "sleep"

AllAttemptsFailed == \A j \in 1..Len(Attempts) : Attempts[j].out \in FailureKinds

\* C1: a call with retries = N >= 1 whose every attempt fails makes exactly N
\* attempts and N-1 sleeps, the k-th sleep lasting delay0 * 2^(k-1), each sleep
\* between two attempts and none after the last, and ends by raising the last
\* attempt's failure; with retries = 5 and delay = 1 the sleeps are 1, 2, 4, 8.
C1_ExhaustedSchedule ==
  (pc = "done" /\ retries >= 1 /\ AllAttemptsFailed) =>
    /\ Len(Attempts) = retries
    /\ Len(Sleeps) = retries - 1
    /\ SleepsDouble
    /\ SleepsBetweenAttempts
    /\ ~fetched.ok
    /\ fetched.exc = AttemptFailure(events[Len(events)].out)
    /\ (retries = 5 /\ delay0 = 1 => SleepDelays = <<1, 2, 4, 8>>)

C1_Witness ==
  /\ pc = "done"
  /\ retries = 5
  /\ delay0 = 1
  /\ AllAttemptsFailed
  /\ Len(Attempts) = 5
  /\ SleepDelays = <<1, 2, 4, 8>>
  /\ ~fetched.ok

\* C2: when attempts 1..k-1 fail and attempt k succeeds, the call returns the
\* body of attempt k, makes no attempt after it, and has slept exactly k-1
\* times, delay0, 2*delay0, ..., delay0 * 2^(k-2), each between two attempts.
C2_SuccessStopsRetries ==
  (pc = "done" /\ ~AllAttemptsFailed) =>
    LET k == Len(Attempts) IN
      /\ k \in 1..retries
      /\ Attempts[k].out = "ok"
      /\ \A j \in 1..(k - 1) : Attempts[j].out \in FailureKinds
      /\ events[Len(events)] = Attempts[k]
      /\ fetched = Val(Attempts[k].body)
      /\ Len(Sleeps) = k - 1
      /\ SleepsDouble
      /\ SleepsBetweenAttempts

C2_Witness ==
  /\ pc = "done"
  /\ retries = 5
  /\ delay0 = 1
  /\ Len(Attempts) = 3
  /\ Attempts[3].out = "ok"
  /\ SleepDelays = <<1, 2>>
  /\ fetched = Val(Attempts[3].body)

\* The nested path candidates[0].content.parts[0].text exists in a body.
HasTextPath(body) ==
  /\ body.ty = "dict"
  /\ <<"candidates">> \in DOMAIN body.d
  /\ LET cs == body.d[<<"candidates">>] IN
       /\ cs.ty = "list"
       /\ cs.l # <<>>
       /\ cs.l[1].ty = "dict"
       /\ <<"content">> \in DOMAIN cs.l[1].d
       /\ LET inner == cs.l[1].d[<<"content">>] IN
            /\ inner.ty = "dict"
            /\ <<"parts">> \in DOMAIN inner.d
            /\ LET parts == inner.d[<<"parts">>] IN
                 /\ parts.ty = "list"
                 /\ parts.l # <<>>
                 /\ parts.l[1].ty = "dict"
                 /\ <<"text">> \in DOMAIN parts.l[1].d

\* A 2xx body that has a candidate, but one of the wrong shape.
HasBrokenCandidate(body) ==
  /\ ~HasTextPath(body)
  /\ body.ty = "dict"
  /\ <<"candidates">> \in DOMAIN body.d
  /\ Truthy(body.d[<<"candidates">>])

\* C3: however the attempts end (transport failure, HTTP failure, a
\* well-formed body, a body without candidates or without part of the text
\* path), get_gemini_response and classify_topic return a str and raise
\* nothing to their caller.
C3_CallersReturnStr ==
  (pc = "done" /\ caller \in {"chat", "classify"}) =>
    /\ result.ok
    /\ result.v.ty = "str"

C3_Witness ==
  /\ pc = "done"
  /\ caller = "chat"
  /\ fetched.ok
  /\ HasBrokenCandidate(fetched.v)
  /\ result.ok
  /\ result.v.ty = "str"

\* C4: classify_topic returns exactly "Unknown" when the retries are exhausted
\* or the body lacks the candidate text path, and returns anything else only
\* when a candidate text was extracted (and then that text, stripped).
C4_ClassifyUnknown ==
  (pc = "done" /\ caller = "classify") =>
    /\ (~fetched.ok \/ ~HasTextPath(fetched.v)) => result = Val(PyStr(UnknownTopic))
    /\ result # Val(PyStr(UnknownTopic)) =>
         /\ fetched.ok
         /\ HasTextPath(fetched.v)
         /\ result = Val(PyStr(Strip(CandidateText(fetched.v).v.s)))

C4_Witness ==
  /\ pc = "done"
  /\ caller = "classify"
  /\ fetched.ok
  /\ HasBrokenCandidate(fetched.v)
  /\ result = Val(PyStr(UnknownTopic))

\* C5: when the request succeeds but the body lacks the candidate shape (no
\* candidates key, an empty candidates list, or a candidate missing content,
\* parts or text), get_gemini_response returns the one fixed fallback string,
\* which differs from what it returns after the retries are exhausted.
C5_ChatFallback ==
  (pc = "done" /\ caller = "chat") =>
    /\ (fetched.ok /\ ~HasTextPath(fetched.v)) => result = Val(PyStr(FallbackText))
    /\ ~fetched.ok => (result.ok /\ result # Val(PyStr(FallbackText)))

\* ------------------------------------------------ claims: analytics log

\* get_analytics_dashboard_data has run on the file as it is now.
Taken == summary # NotEnded

EmptySummary ==
  [totalQueries |-> 0, positiveRatings |-> 0, negativeRatings |-> 0, topics |-> <<>>]

\* The line parses as a JSON object; and as one whose rating is r.
IsObjectLine(line) == Loads(line).ok /\ Loads(line).v.ty = "dict"

HasRating(line, r) ==
  /\ IsObjectLine(line)
  /\ <<"rating">> \in DOMAIN Loads(line).v.d
  /\ Loads(line).v.d[<<"rating">>] = Lit(r)

NumObjectLines(text) ==
  Cardinality({ k \in 1..Len(Lines(text)) : IsObjectLine(Lines(text)[k]) })

NumRated(text, r) ==
  Cardinality({ k \in 1..Len(Lines(text)) : HasRating(Lines(text)[k], r) })

\* C6: for every log content the summary's totalQueries is the number of
\* lines that parse as a JSON object, positiveRatings and negativeRatings the
\* numbers of those rated "positive" and "negative"; an unrated line counts
\* toward totalQueries only and an invalid line toward nothing.
C6_CountsObjectLines ==
  (Taken /\ fstate = "file") =>
    /\ summary.ok
    /\ summary.v.totalQueries = NumObjectLines(content)
    /\ summary.v.positiveRatings = NumRated(content, "positive")
    /\ summary.v.negativeRatings = NumRated(content, "negative")

\* C7: a line that does not parse as a JSON object (invalid text, a blank
\* line, an unfinished object, JSON that is no object) is passed over: the
\* scan goes on and returns the summary of the file without such lines.
C7_SkipsNonObjectLines ==
  (Taken /\ fstate = "file") =>
    summary = get_analytics_dashboard_data("file", Concat(SelectSeq(Lines(content), IsObjectLine)))

\* C8: get_analytics_dashboard_data never raises, and returns the empty
\* summary whenever the file cannot be opened, whether it is missing or the
\* open fails for another reason.
C8_OpenFailureIsEmpty ==
  (Taken /\ fstate # "file") => summary = Val(EmptySummary)

\* C9: on a missing log file and on an existing empty one the summary is
\* totalQueries = 0, positiveRatings = 0, negativeRatings = 0, topics empty.
C9_MissingOrEmptyIsZero ==
  (Taken /\ (fstate = "missing" \/ (fstate = "file" /\ content = <<>>))) =>
    summary = Val(EmptySummary)

C9_Witness ==
  /\ Taken
  /\ fstate = "missing"
  /\ summary = Val(EmptySummary)

\* The value of the item `key` of a logged dict (the last such item).
HasItem(items, key) == \E j \in 1..Len(items) : items[j].k = <<key>>
ItemOf(items, key) ==
  items[CHOOSE j \in 1..Len(items) :
          /\ items[j].k = <<key>>
          /\ \A h \in (j + 1)..Len(items) : items[h].k # <<key>>].v

IsRated(items, r) == HasItem(items, "rating") /\ ItemOf(items, "rating") = <<r>>

\* The count a summary lists for a topic, 0 when it lists none.
TopicCount(sum, topic) ==
  IF \E j \in 1..Len(sum.topics) : sum.topics[j].topic = topic
  THEN (sum.topics[CHOOSE j \in 1..Len(sum.topics) : sum.topics[j].topic = topic]).count
  ELSE 0

TopicsOf(sum) == { sum.topics[j].topic : j \in 1..Len(sum.topics) }

\* Summary `after` is summary `before` with the logged dict counted once.
CountedOnce(before, after, items) ==
  /\ after.totalQueries = before.totalQueries + 1
  /\ after.positiveRatings =
       before.positiveRatings + (IF IsRated(items, "positive") THEN 1 ELSE 0)
  /\ after.negativeRatings =
       before.negativeRatings + (IF IsRated(items, "negative") THEN 1 ELSE 0)
  /\ \A t \in TopicsOf(before) \cup TopicsOf(after) \cup {PyStr(ItemOf(items, "topic"))} :
       TopicCount(after, t) =
         TopicCount(before, t) + (IF t = PyStr(ItemOf(items, "topic")) THEN 1 ELSE 0)

\* A summary was returned, log_analytics then wrote a record to a text that
\* was empty or ended with a newline, and a new summary has been computed.
LoggedBetweenSummaries ==
  /\ Taken
  /\ lastLog.wrote
  /\ lastLog.cleanEnd
  /\ lastLog.before.ok

\* C10: after log_analytics(r) writes to a log that is empty or ends with a
\* newline, a fresh summary differs from the summary taken just before by r
\* counted exactly once: totalQueries + 1, r's rating counter + 1, r's topic
\* count + 1, everything else unchanged.
C10_AppendCountedOnce ==
  LoggedBetweenSummaries =>
    /\ summary.ok
    /\ CountedOnce(lastLog.before.v, summary.v, lastLog.items)

C10_Witness ==
  /\ LoggedBetweenSummaries
  /\ lastLog.before.v.totalQueries >= 1
  /\ IsRated(lastLog.items, "negative")
  /\ HasItem(lastLog.items, "query")
  /\ "\n" \in { ItemOf(lastLog.items, "query")[j] :
                  j \in 1..Len(ItemOf(lastLog.items, "query")) }
  /\ summary.ok
  /\ summary.v.totalQueries = lastLog.before.v.totalQueries + 1

\* A summary was returned (the scan did not raise).
Returned == Taken /\ summary.ok

\* The first line of the text that parses as a JSON object.
FirstObjectLine(text) ==
  Lines(text)[CHOOSE k \in 1..Len(Lines(text)) :
                /\ IsObjectLine(Lines(text)[k])
                /\ \A h \in 1..(k - 1) : ~IsObjectLine(Lines(text)[h])]

\* C11: in every returned summary the topics are in descending order of
\* count (of two topics with different counts the one with the larger count
\* comes first), each topic is listed in exactly one entry, and every listed
\* count is at least 1.
C11_TopicsSorted ==
  Returned =>
    LET ts == summary.v.topics IN
      /\ \A j, k \in 1..Len(ts) : ts[j].count > ts[k].count => j < k
      /\ \A j, k \in 1..Len(ts) : ts[j].topic = ts[k].topic => j = k
      /\ \A j \in 1..Len(ts) : ts[j].count >= 1

\* The topic read first is listed last: the sort moved an entry.
C11_Witness ==
  /\ Returned
  /\ Len(summary.v.topics) = 2
  /\ summary.v.topics[1].count = 2
  /\ summary.v.topics[2].count = 1
  /\ NumObjectLines(content) = 3
  /\ <<"topic">> \in DOMAIN Loads(FirstObjectLine(content)).v.d
  /\ Loads(FirstObjectLine(content)).v.d[<<"topic">>] = summary.v.topics[2].topic

\* C17: in every returned summary the three counters are natural numbers
\* and positiveRatings + negativeRatings is at most totalQueries.
C17_RatingsWithinTotal ==
  Returned =>
    /\ summary.v.totalQueries >= 0
    /\ summary.v.positiveRatings >= 0
    /\ summary.v.negativeRatings >= 0
    /\ summary.v.positiveRatings + summary.v.negativeRatings <= summary.v.totalQueries

\* Rated and unrated records in one log.
C17_Witness ==
  /\ Returned
  /\ summary.v.positiveRatings >= 1
  /\ summary.v.negativeRatings >= 1
  /\ summary.v.positiveRatings + summary.v.negativeRatings < summary.v.totalQueries

RECURSIVE SumCounts(_)
SumCounts(ts) == IF ts = <<>> THEN 0 ELSE Head(ts).count + SumCounts(Tail(ts))

\* C19: in every returned summary the topic counts add up to totalQueries:
\* each counted record adds 1 to exactly one topic, a record without a topic
\* to "Unknown".
C19_TopicCountsSumToTotal ==
  Returned =>
    /\ SumCounts(summary.v.topics) = summary.v.totalQueries
    /\ summary.v.totalQueries = NumObjectLines(content)
    /\ TopicCount(summary.v, PyStr(UnknownTopic)) =
         Cardinality({ k \in 1..Len(Lines(content)) :
                         /\ IsObjectLine(Lines(content)[k])
                         /\ LET d == Loads(Lines(content)[k]).v.d IN
                              \/ <<"topic">> \notin DOMAIN d
                              \/ d[<<"topic">>] = PyStr(UnknownTopic) })

\* A record without a topic next to records with one, a topic counted twice.
C19_Witness ==
  /\ Returned
  /\ summary.v.totalQueries = 3
  /\ TopicCount(summary.v, PyStr(UnknownTopic)) = 1
  /\ \E j \in 1..Len(summary.v.topics) : summary.v.topics[j].count = 2
  /\ SumCounts(summary.v.topics) = 3

IsPrefix(old, new) == Len(old) <= Len(new) /\ SubSeq(new, 1, Len(old)) = old

\* What a step put after the text the file held.
Added == SubSeq(content', Len(content) + 1, Len(content'))

\* The step is a log_analytics call that wrote.
LogWrites == appends' = appends + 1 /\ lastLog'.wrote

\* C15: the log is append-only.  A log_analytics call that writes leaves the
\* text the file held as an unchanged prefix and puts exactly one line after
\* it, ended by its only newline; a call that fails puts no whole line after
\* it; get_analytics_dashboard_data leaves the text as it was; no step
\* changes or removes what the file held.
C15_AppendOnly ==
  [][ /\ IsPrefix(content, content')
      /\ (fstate = "file" => fstate' = "file")
      /\ LogWrites =>
           /\ Added = LogLine(lastLog'.items)
           /\ LineEnds(Added) = {Len(Added)}
      /\ (appends' = appends + 1 /\ ~lastLog'.wrote) => LineEnds(Added) = {}
      /\ appends' = appends => content' = content ]_vars

\* A record whose query holds a newline was written after earlier lines.
C15_Witness ==
  /\ lastLog.wrote
  /\ HasItem(lastLog.items, "query")
  /\ "\n" \in { ItemOf(lastLog.items, "query")[j] :
                  j \in 1..Len(ItemOf(lastLog.items, "query")) }
  /\ Len(content) > Len(LogLine(lastLog.items))
  /\ SubSeq(content, Len(content) - Len(LogLine(lastLog.items)) + 1, Len(content))
       = LogLine(lastLog.items)
  /\ Cardinality(LineEnds(content)) >= 3

\* Summary `later` lists at least what summary `earlier` lists.
Monotone(earlier, later) ==
  /\ later.totalQueries >= earlier.totalQueries
  /\ later.positiveRatings >= earlier.positiveRatings
  /\ later.negativeRatings >= earlier.negativeRatings
  /\ TopicsOf(earlier) \subseteq TopicsOf(later)
  /\ \A t \in TopicsOf(earlier) : TopicCount(later, t) >= TopicCount(earlier, t)

\* A summary was returned, log_analytics was then called once or more, and a
\* new summary has been computed.
SummariesAroundAppends == Taken /\ lastLog.earlier.ok

\* C18 as stated: of two summaries with appends between them the later one
\* has every counter and every topic count at least as large, and lists every
\* topic of the earlier one.
C18_MonotoneSummaries ==
  SummariesAroundAppends =>
    /\ summary.ok
    /\ Monotone(lastLog.earlier.v, summary.v)

\* C18 amended: the same, for appends that each found the text empty or
\* ended by a newline.
C18_MonotoneOnWholeLines ==
  (SummariesAroundAppends /\ lastLog.cleanSince) =>
    /\ summary.ok
    /\ Monotone(lastLog.earlier.v, summary.v)

\* Two appends between the two summaries, both counted.
C18_Witness ==
  /\ SummariesAroundAppends
  /\ lastLog.cleanSince
  /\ lastLog.before = NotEnded
  /\ lastLog.earlier.v.totalQueries >= 1
  /\ summary.ok
  /\ summary.v.totalQueries = lastLog.earlier.v.totalQueries + 2

\* ------------------------------------- claims: request layer, continued

\* The call returned the body of its last attempt, which succeeded.
ReturnsSuccessfulBody ==
  /\ fetched.ok
  /\ Attempts # <<>>
  /\ events[Len(events)] = Attempts[Len(Attempts)]
  /\ Attempts[Len(Attempts)].out = "ok"
  /\ fetched = Val(Attempts[Len(Attempts)].body)

\* The call raised the failure of its last attempt.
RaisesAfterFailure ==
  /\ ~fetched.ok
  /\ Attempts # <<>>
  /\ events[Len(events)] = Attempts[Len(Attempts)]
  /\ Attempts[Len(Attempts)].out \in FailureKinds
  /\ fetched.exc = AttemptFailure(Attempts[Len(Attempts)].out)

\* C20 as stated: for every retries, 0 included, a finished call either
\* returned the body of an attempt that succeeded or raised after an attempt
\* that failed; it returned nothing without a successful attempt.
C20_ReturnOrRaise ==
  pc = "done" => (ReturnsSuccessfulBody \/ RaisesAfterFailure)

\* C20 amended: that holds for retries >= 1; with retries = 0 the call makes
\* no attempt and returns None.
C20_ReturnOrRaiseFromOne ==
  pc = "done" =>
    /\ retries >= 1 => (ReturnsSuccessfulBody \/ RaisesAfterFailure)
    /\ retries >= 1 => ~(ReturnsSuccessfulBody /\ RaisesAfterFailure)
    /\ retries = 0 => (fetched = Val(PyNone) /\ events = <<>>)

\* The smallest retries the amended claim covers: one attempt, which failed.
C20_Witness ==
  /\ pc = "done"
  /\ caller = "fetch"
  /\ retries = 1
  /\ Len(Attempts) = 1
  /\ RaisesAfterFailure

\* --------------------------------------------- claims: Streamlit script

\* The record of the last turn with the rating r.
TurnRecord(r) == Interaction(ui.turn.query, ui.turn.response, ui.turn.topic, <<r>>)

\* C12: a turn in which the user clicks a rating button appends exactly one
\* record, carrying the turn's query, response and topic and the rating
\* clicked; a turn without a click appends nothing; no turn appends two.
C12_OneRecordPerRatedTurn ==
  /\ ui.clicked # "none" => ui.logged = <<TurnRecord(ui.clicked)>>
  /\ ui.clicked = "none" => ui.logged = <<>>
  /\ Len(ui.logged) <= 1

\* ------------------------------------------ claims: concurrent appends

AllDone == \A p \in Procs : conc.pc[p] = "done"

\* The lines of the text that are the line of process p's record.
LinesOf(p) ==
  { k \in 1..Len(Lines(content)) : Lines(content)[k] = LogLine(ProcRecord(p)) }

\* C13: when every append is one atomic write of one line, then after all
\* the processes have appended, in whatever order, the log holds what it
\* held before followed by one whole line per process, each record exactly
\* once and none merged with another, and a summary taken then has
\* totalQueries larger by the number of appends.
C13_AtomicAppendsAllCounted ==
  AllDone =>
    /\ IsPrefix(conc.base, content)
    /\ EndsLine(content)
    /\ \A p \in Procs : Cardinality(LinesOf(p)) = 1
    /\ Len(Lines(content)) = Len(Lines(conc.base)) + MaxProcs
    /\ Taken =>
         /\ summary.ok
         /\ summary.v.totalQueries = NumObjectLines(conc.base) + MaxProcs

\* The processes wrote in another order than they are numbered, after a
\* record the log already held.
C13_Witness ==
  /\ AllDone
  /\ Returned
  /\ conc.base # <<>>
  /\ Lines(content)[Len(Lines(content))] = LogLine(ProcRecord(1))
  /\ summary.v.totalQueries = 1 + MaxProcs

\* ------------------------------------- claims: a scan during an append

\* The text up to its last newline: the lines written in full.
WholeLines(text) ==
  IF LineEnds(text) = {} THEN <<>>
  ELSE SubSeq(text, 1, CHOOSE p \in LineEnds(text) : \A q \in LineEnds(text) : q <= p)

\* A scan has run while a line is written in part.
ScannedMidAppend == Taken /\ pending # <<>>

\* C14 as stated: a scan that runs while the last line is a part of a record
\* does not fail, and returns the summary of the lines written in full: the
\* partial line adds nothing.
C14_PartialLineIgnored ==
  ScannedMidAppend =>
    /\ summary.ok
    /\ summary = get_analytics_dashboard_data("file", WholeLines(content))

\* C14 amended: the scan does not fail; the partial line adds nothing unless
\* it is the whole JSON object with only its newline missing, and then the
\* scan counts it as the record it is.
C14_PartialLineIgnoredUnlessWhole ==
  ScannedMidAppend =>
    /\ summary.ok
    /\ pending # <<"\n">> =>
         summary = get_analytics_dashboard_data("file", WholeLines(content))
    /\ pending = <<"\n">> =>
         summary = get_analytics_dashboard_data("file", content \o <<"\n">>)

\* A scan past whole lines and a part that is no whole object.
C14_Witness ==
  /\ ScannedMidAppend
  /\ Len(pending) > 1
  /\ WholeLines(content) # <<>>
  /\ summary.ok
  /\ summary.v.totalQueries = Len(Lines(WholeLines(content)))
  /\ summary.v.totalQueries >= 1

\* ------------------------------------------- claims: a failing append

\* The last log_analytics call met an I/O error: its open or its write failed.
CallFailed == lastLog.res # NotEnded /\ ~lastLog.wrote

\* What that call left in the file after the text the file held.
LeftByCall == SubSeq(content, Len(lastLog.prior) + 1, Len(content))

\* C16 as stated: a log_analytics call whose open or write fails with an I/O
\* error raises nothing, notifies and returns, and persists no record: a scan
\* finds no more records than the file held before the call.
C16_FailureNotRaised ==
  CallFailed =>
    /\ lastLog.res = Val(PyNone)
    /\ lastLog.notified
    /\ NumObjectLines(content) <= NumObjectLines(lastLog.prior)

\* C16 amended: the call raises nothing, notifies and returns, and the
\* record's line is not written in full: the file keeps what it held,
\* followed by at most a part of the line without its newline, and a scan
\* finds no more records than before unless that part is the whole object.
C16_FailureNotRaisedNoWholeLine ==
  CallFailed =>
    /\ lastLog.res = Val(PyNone)
    /\ lastLog.notified
    /\ IsPrefix(lastLog.prior, content)
    /\ LineEnds(LeftByCall) = {}
    /\ LeftByCall # Dumps(lastLog.items) =>
         NumObjectLines(content) <= NumObjectLines(lastLog.prior)

\* A write that failed half way after an earlier record.
C16_Witness ==
  /\ CallFailed
  /\ lastLog.res = Val(PyNone)
  /\ lastLog.notified
  /\ NumObjectLines(lastLog.prior) >= 1
  /\ Len(LeftByCall) > 1
  /\ LeftByCall # Dumps(lastLog.items)
  /\ NumObjectLines(content) = NumObjectLines(lastLog.prior)

====
